---- MODULE Spec2Model ----
(***************************************************************************)
(* The orders pipeline of delete-strapi-orders (src/main.rs): one          *)
(* discovery fetch of page 1, one spawned task per page that fetches its   *)
(* page and deletes every record of it (secondary store first when the     *)
(* record has a cart reference, then the primary store), join_all, and the *)
(* fold of the per-page results into the processed counter.                *)
(*                                                                         *)
(* Every await of the code is a step boundary: a request is issued by one  *)
(* action and answered by another.  The primary store is the set of order  *)
(* ids still present; the listing endpoint pages over that set in id       *)
(* order, so a page fetched after a deletion sees the shifted listing.     *)
(***************************************************************************)
EXTENDS Integers, Sequences, FiniteSets

\* ------------------------------------------------------------------ bounds
MaxOrders == 11     \* largest number of orders in the primary store at start
MaxFaults == 2      \* at most this many network calls fail in one behaviour
MaxRuns == 2        \* the program is invoked at most this many times
ScenarioOrders == 25 \* orders in the store of the three-page scenario

\* --------------------------------------------------------------- constants
PageSize == 10      \* create_order_filter(page, 10)

RequiredKeys == {"STRAPI_BASE_URL", "STRAPI_TOKEN", "SHOP_ACCESS_TOKEN", "SHOP_BASE_URL"}
StrapiKeys == {"STRAPI_BASE_URL", "STRAPI_TOKEN"}

\* A key is not set, or set to a value the request built from it accepts, or
\* set to a value it rejects: a base URL that does not parse as an absolute
\* URL (an empty one, say), a token that is not a valid header value (one with
\* a line break in it, say).
Values == {"unset", "valid", "malformed"}

VARIABLES
    env,          \* configuration key -> what it is set to
    backend,      \* ids of the orders present in the primary store
    run,          \* which invocation of the program this is
    emptied,      \* the previous invocation removed the last order of the store
    faults,       \* failed network calls so far
    phase,        \* where delete_orders / process_root_orders stands
    discoveries,  \* discovery fetches issued by this run
    total_pages,  \* root.meta.pagination.page_count
    total_orders, \* root.meta.pagination.total
    processed_orders,
    tasks,        \* the spawned page tasks, in spawn order
    pageFetches,  \* page number -> listing fetches issued by page tasks
    doneOrder,    \* pages in the order their tasks finished
    errors,       \* the "Error: ..." lines printed
    progress,     \* the "Processed ..." lines printed, in order
    next_result   \* index of the next join result to fold

vars == <<env, backend, run, emptied, faults, phase, discoveries, total_pages,
          total_orders, processed_orders, tasks, pageFetches, doneOrder,
          errors, progress, next_result>>

\* ------------------------------------------------------------ the services
\* Option<String>: <<>> is None, <<r>> is Some(r).
CartReference(id) == IF id % 3 = 1 THEN <<id + 100>> ELSE <<>>

DataElement(id) == [id |-> id, cart_reference |-> CartReference(id)]

Min(a, b) == IF a < b THEN a ELSE b

CeilDiv(a, b) == (a + b - 1) \div b

Rank(x, S) == Cardinality({y \in S : y <= x})

\* The data of page `page` of the listing over the orders in S.
PageData(S, page) ==
    LET first == (page - 1) * PageSize
        n == IF Cardinality(S) > first THEN Min(PageSize, Cardinality(S) - first) ELSE 0
    IN  [k \in 1..n |-> DataElement(CHOOSE x \in S : Rank(x, S) = first + k)]

Pagination(S, page) ==
    [page |-> page, page_size |-> PageSize,
     page_count |-> CeilDiv(Cardinality(S), PageSize), total |-> Cardinality(S)]

\* The Root a listing fetch deserialises when it succeeds.
Root(S, page) == [data |-> PageData(S, page), meta |-> [pagination |-> Pagination(S, page)]]

\* What a DELETE that was sent can come back with: no response at all, or a
\* response of some HTTP status.
Responses == {"transport_error", "http_2xx", "http_4xx", "http_5xx"}

\* The Err(_) of send().await: the request failed on the wire, or it could not
\* be built and was never sent.
SendErrors == {"transport_error", "builder_error"}

\* ------------------------------------------------------------ the program
\* std::env::var(k).unwrap() / .expect(...) on each key of ks.
ConfigPresent(ks) == \A k \in ks : env[k] # "unset"

\* load_configs: all four keys or a panic.
load_configs_ok == ConfigPresent(RequiredKeys)

\* The value of key k parses as what the request needs of it.
WellFormed(k) == env[k] = "valid"

\* client.get(&url).header("Authorization", &header): the builder holds a
\* request, not an error.
ListingRequestBuilt == WellFormed("STRAPI_BASE_URL") /\ WellFormed("STRAPI_TOKEN")

\* What invoking a delete function does before anything is on the wire:
\* delete_shopify_resource unwraps the parse of the access token into a header
\* value and panics when it fails; a request that cannot be built makes
\* send() return its error at once.
Invoke(call) ==
    IF call = "deleteSecondary"
        THEN IF ~WellFormed("SHOP_ACCESS_TOKEN") THEN "raise"
             ELSE IF ~WellFormed("SHOP_BASE_URL") THEN "builder_error"
             ELSE "sent"
        ELSE IF ~(WellFormed("STRAPI_BASE_URL") /\ WellFormed("STRAPI_TOKEN"))
                 THEN "builder_error"
             ELSE "sent"

\* delete_shopify_resource / delete_strapi_resource: Ok(_) => true, Err(_) => false.
delete_shopify_resource(resp) == IF resp \notin SendErrors THEN "true" ELSE "false"

DeleteRaisesOnStatus(resp) ==
    IF resp = "transport_error" THEN "false"
    ELSE IF resp = "http_2xx" THEN "true" ELSE "raise"

delete_strapi_resource(resp) == IF resp \notin SendErrors THEN "true" ELSE "false"

\* client.delete(&url)...send().await: the requests one invocation sends.
DeleteRequests(resp) == IF resp = "builder_error" THEN 0 ELSE 1

\* The DELETE calls of one iteration of the loop of process_paged_orders.
CallsAlwaysSecondary(data) ==
    <<[call |-> "deleteSecondary",
       id |-> IF Len(data.cart_reference) > 0 THEN data.cart_reference[1] ELSE data.id],
      [call |-> "deletePrimary", id |-> data.id]>>

RecordCalls(data) ==
    (IF Len(data.cart_reference) > 0
        THEN <<[call |-> "deleteSecondary", id |-> data.cart_reference[1]]>> ELSE <<>>)
    \o <<[call |-> "deletePrimary", id |-> data.id]>>

\* processed += 1, whatever the two calls returned.
IncrementIfDeleted(sec_ok, prim_ok) == IF sec_ok = "true" /\ prim_ok = "true" THEN 1 ELSE 0

ProcessedIncrement(sec_ok, prim_ok) == 1

\* (1..=total_pages)
PageRangeExclusive(n) == 1..(n - 1)

PageRange(n) == 1..n

\* processed_orders += total_processed_orders
FoldAssign(acc, count) == count

Fold(acc, count) == acc + count

PageNumbers ==
    0..(CeilDiv(IF MaxOrders > ScenarioOrders THEN MaxOrders ELSE ScenarioOrders, PageSize) + 1)

NewTask(page) ==
    [pc |-> "Pending", page |-> page, fetch |-> "none", data |-> <<>>,
     i |-> 1, j |-> 1, processed |-> 0, log |-> <<>>,
     sec_ok |-> "true", falses |-> 0, absent |-> FALSE,
     returns |-> 0, requests |-> 0, last_resp |-> "none", last_ret |-> "none",
     result |-> <<>>]

AdvanceNoAwait(t) ==
    IF t.i > Len(t.data)
        THEN [t EXCEPT !.pc = "Done", !.result = <<t.processed, t.page>>]
        ELSE LET cs == RecordCalls(t.data[t.i])
             IN  [t EXCEPT !.pc = cs[Len(cs)].call,
                           !.j = Len(cs),
                           !.log = @ \o [n \in 1..Len(cs) |->
                                            [call |-> cs[n].call, id |-> cs[n].id, rec |-> t.i]]]

RECURSIVE Returned(_, _)

\* The task at the top of the loop of process_paged_orders with i, j set: it
\* invokes the next delete function, or returns (processed, page).  The
\* invocation sends its DELETE and awaits the answer, or panics on the access
\* token, or comes back at once with the error of a request that was not
\* built.
Advance(t) ==
    IF t.i > Len(t.data)
        THEN [t EXCEPT !.pc = "Done", !.result = <<t.processed, t.page>>]
        ELSE LET c == RecordCalls(t.data[t.i])[t.j]
                 o == Invoke(c.call)
             IN  IF o = "sent"
                     THEN [t EXCEPT !.pc = c.call,
                                    !.log = Append(@, [call |-> c.call, id |-> c.id, rec |-> t.i])]
                 ELSE IF o = "raise"
                     THEN [t EXCEPT !.pc = "Panicked", !.last_ret = "raise"]
                 ELSE Returned([t EXCEPT !.pc = c.call, !.last_resp = o,
                                         !.requests = @ + DeleteRequests(o)],
                               IF c.call = "deleteSecondary"
                                   THEN delete_shopify_resource(o)
                                   ELSE delete_strapi_resource(o))

FinishedOnlyReturned(t) == t.pc = "Done"

\* The JoinHandle of the task is ready: the task returned or panicked.
Finished(t) == t.pc \in {"Done", "Panicked"}

\* A failed call, or an error status for a record that is there, is a fault;
\* a 404 for an id that is gone is not.
IsFault(resp, present) == ~(resp = "http_2xx" \/ (~present /\ resp = "http_4xx"))

\* The task's DELETE came back with `ret`: the next call of the same record,
\* or processed += 1 and the next record.
Returned(t, ret) ==
    LET u == [t EXCEPT !.falses = IF ret = "false" THEN @ + 1 ELSE @,
                       !.returns = @ + 1, !.last_ret = ret,
                       !.sec_ok = IF t.pc = "deleteSecondary" THEN ret ELSE @]
        prim_ok == IF t.pc = "deletePrimary" THEN ret ELSE "true"
    IN  IF ret = "raise"
            THEN [u EXCEPT !.pc = "Panicked"]
        ELSE IF t.j < Len(RecordCalls(t.data[t.i]))
            THEN Advance([u EXCEPT !.j = @ + 1])
        ELSE Advance([u EXCEPT !.i = @ + 1, !.j = 1, !.sec_ok = "true",
                               !.processed = @ + ProcessedIncrement(u.sec_ok, prim_ok)])

\* doneOrder after task p moved to t.
Completed(p, t) == IF Finished(t) THEN Append(doneOrder, p) ELSE doneOrder

Init ==
    /\ env \in [RequiredKeys -> Values]
    /\ backend \in {1..n : n \in 0..MaxOrders}
    /\ run = 1
    /\ emptied = FALSE
    /\ faults = 0
    /\ phase = "start"
    /\ discoveries = 0
    /\ total_pages = 0
    /\ total_orders = 0
    /\ processed_orders = 0
    /\ tasks = <<>>
    /\ pageFetches = [p \in PageNumbers |-> 0]
    /\ doneOrder = <<>>
    /\ errors = {}
    /\ progress = <<>>
    /\ next_result = 1

\* delete_orders -> fetch_root_for_page(1): the unwrap of a missing key panics
\* before the request is built.
StartupPanic ==
    /\ phase = "start"
    /\ ~ConfigPresent(StrapiKeys)
    /\ phase' = "crashed"
    /\ UNCHANGED <<env, backend, run, emptied, faults, discoveries, total_pages,
                   total_orders, processed_orders, tasks, pageFetches, doneOrder,
                   errors, progress, next_result>>

\* delete_orders -> fetch_root_for_page(1): the GET is sent; or it could not
\* be built, send() is Err at once and delete_orders prints it and returns.
StartDiscovery ==
    /\ phase = "start"
    /\ ConfigPresent(StrapiKeys)
    /\ IF ListingRequestBuilt
           THEN /\ phase' = "discovering"
                /\ discoveries' = discoveries + 1
                /\ errors' = errors
           ELSE /\ phase' = "stopped"
                /\ discoveries' = discoveries
                /\ errors' = errors \cup {<<"discovery", 1>>}
    /\ UNCHANGED <<env, backend, run, emptied, faults, total_pages,
                   total_orders, processed_orders, tasks, pageFetches, doneOrder,
                   progress, next_result>>

\* Ok(root) => process_root_orders(root) up to join_all(tasks).await.
DiscoveryOk ==
    /\ phase = "discovering"
    /\ LET root == Root(backend, 1)
       IN  /\ total_pages' = root.meta.pagination.page_count
           /\ total_orders' = root.meta.pagination.total
           /\ tasks' = [p \in PageRange(root.meta.pagination.page_count) |-> NewTask(p)]
    /\ processed_orders' = 0
    /\ phase' = "joining"
    /\ UNCHANGED <<env, backend, run, emptied, faults, discoveries, pageFetches,
                   doneOrder, errors, progress, next_result>>

\* Err(e) => println!("Error: {}", e).
DiscoveryErrRetries ==
    /\ phase = "discovering"
    /\ faults < MaxFaults
    /\ faults' = faults + 1
    /\ errors' = errors \cup {<<"discovery", 1>>}
    /\ discoveries' = discoveries + 1
    /\ UNCHANGED <<env, backend, run, emptied, phase, total_pages,
                   total_orders, processed_orders, tasks, pageFetches, doneOrder,
                   progress, next_result>>

DiscoveryErr ==
    /\ phase = "discovering"
    /\ faults < MaxFaults
    /\ faults' = faults + 1
    /\ errors' = errors \cup {<<"discovery", 1>>}
    /\ phase' = "stopped"
    /\ UNCHANGED <<env, backend, run, emptied, discoveries, total_pages,
                   total_orders, processed_orders, tasks, pageFetches, doneOrder,
                   progress, next_result>>

\* The spawned task starts: fetch_root_for_page(page) sends its GET.
TaskFetch(p) ==
    /\ phase = "joining"
    /\ p \in DOMAIN tasks
    /\ tasks[p].pc = "Pending"
    /\ LET t == tasks[p]
           u == IF ~ConfigPresent(StrapiKeys)
                    THEN [t EXCEPT !.pc = "Panicked"]
                ELSE IF ~ListingRequestBuilt
                    THEN [t EXCEPT !.fetch = "failed", !.pc = "Done", !.result = <<0, t.page>>]
                ELSE [t EXCEPT !.pc = "Fetching"]
       IN  /\ tasks' = [tasks EXCEPT ![p] = u]
           /\ pageFetches' = IF u.pc = "Fetching"
                                THEN [pageFetches EXCEPT ![t.page] = @ + 1]
                                ELSE pageFetches
           /\ errors' = IF u.fetch = "failed"
                           THEN errors \cup {<<"fetch", t.page>>}
                           ELSE errors
           /\ doneOrder' = Completed(p, u)
    /\ UNCHANGED <<env, backend, run, emptied, faults, phase, discoveries,
                   total_pages, total_orders, processed_orders, progress,
                   next_result>>

\* Ok(next) => process_paged_orders(&next, page): load_configs, then the
\* first DELETE of the first record, or (0, page) for an empty page.
FetchOk(p) ==
    /\ phase = "joining"
    /\ p \in DOMAIN tasks
    /\ tasks[p].pc = "Fetching"
    /\ LET t == [tasks[p] EXCEPT !.fetch = "ok", !.data = Root(backend, tasks[p].page).data]
           u == IF load_configs_ok THEN Advance(t) ELSE [t EXCEPT !.pc = "Panicked"]
       IN  /\ tasks' = [tasks EXCEPT ![p] = u]
           /\ doneOrder' = Completed(p, u)
    /\ UNCHANGED <<env, backend, run, emptied, faults, phase, discoveries,
                   total_pages, total_orders, processed_orders, pageFetches, errors,
                   progress, next_result>>

FetchErrRetries(p) ==
    /\ phase = "joining"
    /\ p \in DOMAIN tasks
    /\ tasks[p].pc = "Fetching"
    /\ faults < MaxFaults
    /\ faults' = faults + 1
    /\ tasks' = [tasks EXCEPT ![p] = [@ EXCEPT !.fetch = "failed", !.pc = "Pending"]]
    /\ errors' = errors \cup {<<"fetch", tasks[p].page>>}
    /\ UNCHANGED <<env, backend, run, emptied, phase, discoveries, total_pages,
                   total_orders, processed_orders, pageFetches, doneOrder, progress,
                   next_result>>

\* Err(e) => { println!("Error: {}", e); (0, page) }
FetchErr(p) ==
    /\ phase = "joining"
    /\ p \in DOMAIN tasks
    /\ tasks[p].pc = "Fetching"
    /\ faults < MaxFaults
    /\ faults' = faults + 1
    /\ LET t == tasks[p]
           u == [t EXCEPT !.fetch = "failed", !.pc = "Done", !.result = <<0, t.page>>]
       IN  /\ tasks' = [tasks EXCEPT ![p] = u]
           /\ errors' = errors \cup {<<"fetch", t.page>>}
           /\ doneOrder' = Completed(p, u)
    /\ UNCHANGED <<env, backend, run, emptied, phase, discoveries, total_pages,
                   total_orders, processed_orders, pageFetches, progress, next_result>>

\* delete_shopify_resource(...).await returns.
SecondaryReturn(p, resp) ==
    /\ phase = "joining"
    /\ p \in DOMAIN tasks
    /\ tasks[p].pc = "deleteSecondary"
    /\ IsFault(resp, TRUE) => faults < MaxFaults
    /\ faults' = IF IsFault(resp, TRUE) THEN faults + 1 ELSE faults
    /\ LET t == [tasks[p] EXCEPT !.last_resp = resp, !.requests = @ + DeleteRequests(resp)]
           u == Returned(t, delete_shopify_resource(resp))
       IN  /\ tasks' = [tasks EXCEPT ![p] = u]
           /\ doneOrder' = Completed(p, u)
    /\ UNCHANGED <<env, backend, run, emptied, phase, discoveries, total_pages,
                   total_orders, processed_orders, pageFetches, errors, progress,
                   next_result>>

\* delete_strapi_resource(...).await returns; a 2xx removed the order.
PrimaryReturn(p, resp) ==
    /\ phase = "joining"
    /\ p \in DOMAIN tasks
    /\ tasks[p].pc = "deletePrimary"
    /\ LET t == tasks[p]
           id == t.data[t.i].id
           present == id \in backend
           u == Returned([t EXCEPT !.absent = ~present, !.last_resp = resp,
                                   !.requests = @ + DeleteRequests(resp)],
                         delete_strapi_resource(resp))
       IN  /\ IsFault(resp, present) => faults < MaxFaults
           /\ faults' = IF IsFault(resp, present) THEN faults + 1 ELSE faults
           /\ backend' = IF resp = "http_2xx" THEN backend \ {id} ELSE backend
           /\ tasks' = [tasks EXCEPT ![p] = u]
           /\ doneOrder' = Completed(p, u)
    /\ UNCHANGED <<env, run, emptied, phase, discoveries, total_pages,
                   total_orders, processed_orders, pageFetches, errors, progress,
                   next_result>>

JoinAny ==
    /\ phase = "joining"
    /\ \E p \in DOMAIN tasks : Finished(tasks[p])
    /\ phase' = "folding"
    /\ next_result' = 1
    /\ UNCHANGED <<env, backend, run, emptied, faults, discoveries, total_pages,
                   total_orders, processed_orders, tasks, pageFetches, doneOrder,
                   errors, progress>>

\* join_all(tasks).await completes when every task has finished.
JoinAll ==
    /\ phase = "joining"
    /\ \A p \in DOMAIN tasks : Finished(tasks[p])
    /\ phase' = "folding"
    /\ next_result' = 1
    /\ UNCHANGED <<env, backend, run, emptied, faults, discoveries, total_pages,
                   total_orders, processed_orders, tasks, pageFetches, doneOrder,
                   errors, progress>>

JoinResultInCompletionOrder(n) == tasks[doneOrder[n]]

\* join_all yields the results in the order of the futures it was given.
JoinResult(n) == tasks[n]

\* One iteration of `for result in results`.
FoldResult ==
    /\ phase = "folding"
    /\ next_result \in DOMAIN tasks
    /\ LET t == JoinResult(next_result)
       IN  IF t.pc = "Done"
               THEN /\ processed_orders' = Fold(processed_orders, t.result[1])
                    /\ progress' = Append(progress,
                           [processed |-> Fold(processed_orders, t.result[1]),
                            total |-> total_orders,
                            page |-> t.result[2],
                            pages |-> total_pages])
                    /\ errors' = errors
               ELSE /\ errors' = errors \cup {<<"join", t.page>>}
                    /\ UNCHANGED <<processed_orders, progress>>
    /\ next_result' = next_result + 1
    /\ UNCHANGED <<env, backend, run, emptied, faults, phase, discoveries,
                   total_pages, total_orders, tasks, pageFetches, doneOrder>>

\* The loop is over: process_root_orders, delete_orders and main return.
Finish ==
    /\ phase = "folding"
    /\ next_result \notin DOMAIN tasks
    /\ phase' = "done"
    /\ UNCHANGED <<env, backend, run, emptied, faults, discoveries, total_pages,
                   total_orders, processed_orders, tasks, pageFetches, doneOrder,
                   errors, progress, next_result>>

Ended == phase \in {"done", "stopped", "crashed"}

\* The program is invoked again, against the store as the last run left it.
Restart ==
    /\ Ended
    /\ run < MaxRuns
    /\ run' = run + 1
    /\ emptied' = (backend = {} /\ total_orders > 0)
    /\ phase' = "start"
    /\ discoveries' = 0
    /\ total_pages' = 0
    /\ total_orders' = 0
    /\ processed_orders' = 0
    /\ tasks' = <<>>
    /\ pageFetches' = [p \in PageNumbers |-> 0]
    /\ doneOrder' = <<>>
    /\ errors' = {}
    /\ progress' = <<>>
    /\ next_result' = 1
    /\ UNCHANGED <<env, backend, faults>>

Next ==
    \/ StartupPanic
    \/ StartDiscovery
    \/ DiscoveryOk
    \/ DiscoveryErr
    \/ \E p \in PageNumbers : TaskFetch(p)
    \/ \E p \in PageNumbers : FetchOk(p)
    \/ \E p \in PageNumbers : FetchErr(p)
    \/ \E p \in PageNumbers, resp \in Responses : SecondaryReturn(p, resp)
    \/ \E p \in PageNumbers, resp \in Responses : PrimaryReturn(p, resp)
    \/ JoinAll
    \/ FoldResult
    \/ Finish
    \/ Restart

Spec == Init /\ [][Next]_vars

\* Every request sent is answered in the end, every task that can run gets to
\* run, and so does the orchestrator once join_all is ready.
TaskStep(p) ==
    \/ TaskFetch(p)
    \/ FetchOk(p)
    \/ FetchErr(p)
    \/ \E resp \in Responses : SecondaryReturn(p, resp)
    \/ \E resp \in Responses : PrimaryReturn(p, resp)

Fairness ==
    /\ \A p \in PageNumbers : WF_vars(TaskStep(p))
    /\ WF_vars(JoinAll \/ FoldResult \/ Finish)

\* The fair runs: an empty listing, one page, two pages; the two-page store
\* with every configuration whose base URLs and listing token are well-formed
\* or unset.
InitFair ==
    /\ Init
    /\ Cardinality(backend) \in {0, 1, PageSize + 1}
    /\ Cardinality(backend) > 1 =>
          \A k \in RequiredKeys : env[k] = "malformed" => k = "SHOP_ACCESS_TOKEN"

FairSpec == InitFair /\ [][Next]_vars /\ Fairness

\* --------------------------------------------------- the three-page scenario
\* A store of ScenarioOrders orders (three pages of the listing), every key
\* set, and a network on which only the listing fetch of page 2 may fail.
InitScenario ==
    /\ env = [k \in RequiredKeys |-> "valid"]
    /\ backend = 1..ScenarioOrders
    /\ run = 1
    /\ emptied = FALSE
    /\ faults = 0
    /\ phase = "start"
    /\ discoveries = 0
    /\ total_pages = 0
    /\ total_orders = 0
    /\ processed_orders = 0
    /\ tasks = <<>>
    /\ pageFetches = [p \in PageNumbers |-> 0]
    /\ doneOrder = <<>>
    /\ errors = {}
    /\ progress = <<>>
    /\ next_result = 1

PrimaryAnswered(p) ==
    \E resp \in Responses :
        /\ p \in DOMAIN tasks
        /\ tasks[p].pc = "deletePrimary"
        /\ ~IsFault(resp, tasks[p].data[tasks[p].i].id \in backend)
        /\ PrimaryReturn(p, resp)

NextScenario ==
    \/ StartDiscovery
    \/ DiscoveryOk
    \/ \E p \in PageNumbers : TaskFetch(p)
    \/ \E p \in PageNumbers : FetchOk(p)
    \/ FetchErr(2)
    \/ \E p \in PageNumbers : SecondaryReturn(p, "http_2xx")
    \/ \E p \in PageNumbers : PrimaryAnswered(p)
    \/ JoinAll
    \/ FoldResult
    \/ Finish
    \/ Restart

SpecScenario == InitScenario /\ [][NextScenario]_vars

\* ------------------------------------------------------------------ claims
RECURSIVE SumOver(_, _)
SumOver(f, S) ==
    IF S = {} THEN 0
    ELSE LET x == CHOOSE y \in S : TRUE IN f[x] + SumOver(f, S \ {x})

RECURSIVE SumInOrder(_, _)
SumInOrder(f, seq) ==
    IF seq = <<>> THEN 0 ELSE f[Head(seq)] + SumInOrder(f, Tail(seq))

\* What the join result of each task adds to the counter.
ResultCount == [p \in DOMAIN tasks |-> IF tasks[p].pc = "Done" THEN tasks[p].result[1] ELSE 0]

\* The records each task's successful fetch returned.
FetchedRecords == [p \in DOMAIN tasks |-> IF tasks[p].fetch = "ok" THEN Len(tasks[p].data) ELSE 0]

\* The DELETE calls task t has issued for the k-th record of its page.
CallsOf(t, k) == SelectSeq(t.log, LAMBDA e : e.rec = k)

InFlight(t) == t.pc \in {"deleteSecondary", "deletePrimary"}

HasReference(data) == Len(data.cart_reference) > 0

\* Every key is set to a value its request accepts.
ConfigValid == \A k \in RequiredKeys : WellFormed(k)

\* Every request of the run can be built from its base URL and sent.
UrlsValid == WellFormed("STRAPI_BASE_URL") /\ WellFormed("SHOP_BASE_URL")

\* The task panicked inside a delete function, on the record it was at.
RaisedAt(t, k) == t.pc = "Panicked" /\ t.last_ret = "raise" /\ k = t.i

\* The delete invocations the loop of task t has completed when it stands at
\* call j of record i.
CallsDue(t) ==
    SumOver([k \in 1..(t.i - 1) |-> IF HasReference(t.data[k]) THEN 2 ELSE 1],
            1..(t.i - 1)) + (t.j - 1)

ExpectedPageFetches(p) == IF p \in 1..CeilDiv(total_orders, PageSize) THEN 1 ELSE 0

\* C1: after a successful discovery that reported total T (page size S), the
\* page tasks issue one listing fetch for each page 1..ceil(T/S) and none for
\* any other page, next to the one discovery fetch: never more while the tasks
\* run, exactly that many once they are joined.
C1_PageFetches ==
    phase \in {"joining", "folding", "done"} =>
        /\ discoveries = 1
        /\ \A p \in PageNumbers : pageFetches[p] <= ExpectedPageFetches(p)
        /\ phase # "joining" => \A p \in PageNumbers : pageFetches[p] = ExpectedPageFetches(p)

C1_Witness ==
    /\ phase = "done"
    /\ total_orders > PageSize
    /\ pageFetches[1] = 1 /\ pageFetches[2] = 1

\* C2 (as stated): at the terminal state the processed count is the number of
\* records in the pages whose fetch succeeded, and a failed fetch adds 0.
C2_SumOfFetchedPages ==
    phase = "done" =>
        /\ processed_orders = SumOver(FetchedRecords, DOMAIN tasks)
        /\ \A p \in DOMAIN tasks :
              tasks[p].fetch = "failed" => tasks[p].result = <<0, tasks[p].page>>

\* C3 (as stated), for a run whose base URLs are well-formed: a record with a
\* cart reference gets exactly two DELETE calls from the task processing it,
\* deleteSecondary on the reference and then deletePrimary on the id;
\* deletePrimary is issued once deleteSecondary has returned, whatever it
\* returned, and the processing of the record is not cut short before both are
\* out.
C3_SecondaryThenPrimary ==
    UrlsValid =>
    \A p \in DOMAIN tasks :
        LET t == tasks[p] IN
        \A k \in 1..Len(t.data) :
            HasReference(t.data[k]) =>
                LET sec == [call |-> "deleteSecondary", id |-> t.data[k].cart_reference[1], rec |-> k]
                    prim == [call |-> "deletePrimary", id |-> t.data[k].id, rec |-> k]
                IN  /\ k < t.i => CallsOf(t, k) = <<sec, prim>>
                    /\ (k = t.i /\ t.pc = "deleteSecondary") => CallsOf(t, k) = <<sec>>
                    /\ (k = t.i /\ t.pc = "deletePrimary") => CallsOf(t, k) = <<sec, prim>>
                    /\ ~RaisedAt(t, k)
                    /\ (k > t.i \/ (k = t.i /\ ~InFlight(t))) => CallsOf(t, k) = <<>>

\* C4: a record without a cart reference never gets a deleteSecondary call
\* from the task processing it, and gets exactly one deletePrimary call.
C4_PrimaryOnly ==
    \A p \in DOMAIN tasks :
        LET t == tasks[p] IN
        \A k \in 1..Len(t.data) :
            ~HasReference(t.data[k]) =>
                /\ \A n \in 1..Len(t.log) :
                      t.log[n].rec = k => t.log[n].call # "deleteSecondary"
                /\ (k < t.i \/ (k = t.i /\ InFlight(t))) =>
                      CallsOf(t, k) = <<[call |-> "deletePrimary", id |-> t.data[k].id, rec |-> k]>>
                /\ (k > t.i \/ (k = t.i /\ ~InFlight(t))) => CallsOf(t, k) = <<>>

C4_Witness ==
    \E p \in DOMAIN tasks :
        /\ tasks[p].pc = "Done"
        /\ \E k \in 1..Len(tasks[p].data) : ~HasReference(tasks[p].data[k])

\* C5: when the discovery fetch fails the run reports the error and stops: no
\* second listing fetch, no page task, no DELETE call, no progress.
C5_DiscoveryFailureStops ==
    <<"discovery", 1>> \in errors =>
        /\ phase = "stopped"
        /\ discoveries <= 1
        /\ tasks = <<>>
        /\ \A p \in PageNumbers : pageFetches[p] = 0
        /\ progress = <<>>
        /\ processed_orders = 0

C5_Witness == phase = "stopped" /\ <<"discovery", 1>> \in errors /\ backend # {}

\* C6 (as stated): with a required key missing the run fails at startup,
\* before any listing fetch or DELETE is sent.
C6_MissingKeyIsStartupFatal ==
    ~ConfigPresent(RequiredKeys) =>
        /\ phase \in {"start", "crashed"}
        /\ discoveries = 0
        /\ \A p \in PageNumbers : pageFetches[p] = 0

\* C7 (as stated): 25 orders in pages of 10, the fetch of page 2 fails and
\* every other call succeeds: the run ends with 15 processed and the one
\* error of page 2.
C7_ScenarioCount ==
    (run = 1 /\ phase = "done" /\ tasks[2].fetch = "failed") =>
        /\ processed_orders = 15
        /\ errors = {<<"fetch", 2>>}

\* C8: process_paged_orders returns the number of records of the page for
\* every outcome of the delete calls: each call made once (no retry), every
\* record reached, the counter one per record.
C8_CountIgnoresOutcomes ==
    \A p \in DOMAIN tasks :
        LET t == tasks[p] IN
        /\ (t.fetch = "ok" /\ t.pc # "Panicked") =>
              /\ t.processed = t.i - 1
              /\ t.returns = CallsDue(t)
        /\ (t.fetch = "ok" /\ t.pc = "Done") => t.result = <<Len(t.data), t.page>>

C8_Witness ==
    \E p \in DOMAIN tasks :
        /\ tasks[p].pc = "Done"
        /\ tasks[p].falses = 2
        /\ Len(tasks[p].data) > 1

\* C9: the final total is the sum of the per-page results, the same in the
\* order the tasks completed as in page order.
C9_OrderIndependent ==
    phase = "done" =>
        /\ {doneOrder[n] : n \in 1..Len(doneOrder)} = DOMAIN tasks
        /\ processed_orders = SumInOrder(ResultCount, doneOrder)
        /\ processed_orders = SumOver(ResultCount, DOMAIN tasks)

C9_Witness ==
    /\ phase = "done"
    /\ doneOrder = <<2, 1>>
    /\ ResultCount[1] > ResultCount[2]
    /\ ResultCount[2] > 0

\* C10: a run against a store the previous run emptied does not crash, issues
\* no DELETE and ends with 0 processed; and a DELETE of an id that is already
\* gone returns to its task instead of raising.
C10_SecondRunOnEmptyStore ==
    /\ (run > 1 /\ emptied) =>
          /\ phase # "crashed"
          /\ backend = {}
          /\ tasks = <<>>
          /\ processed_orders = 0
          /\ phase \in {"joining", "folding", "done"} => (total_pages = 0 /\ total_orders = 0)
    /\ \A p \in DOMAIN tasks : tasks[p].absent => tasks[p].pc # "Panicked"

C10_Witness == run = 2 /\ emptied /\ phase = "done" /\ discoveries = 1

\* C11 (as stated), for a run whose base URLs are well-formed: each invocation
\* of deleteSecondary / deletePrimary sends one DELETE request, returns true
\* for every response whatever its HTTP status and false only when there was no
\* response, and never raises to the task.
C11_TrueUnlessTransportError ==
    UrlsValid =>
    \A p \in DOMAIN tasks :
        LET t == tasks[p] IN
        /\ t.requests = t.returns
        /\ t.returns > 0 =>
              /\ t.last_ret \in {"true", "false"}
              /\ t.last_ret = "true" <=> t.last_resp \in {"http_2xx", "http_4xx", "http_5xx"}
              /\ t.last_ret = "false" <=> t.last_resp = "transport_error"
        /\ t.last_ret # "raise"

\* The state of a page task in the terms of the per-task state machine; a
\* task that ended, by returning or by panicking, is Done.  FetchFailed, and
\* Processing of an empty page, are left within the step that enters them.
TaskState(t) ==
    IF t.pc = "Pending" THEN "Pending"
    ELSE IF t.pc = "Fetching" THEN "Fetching"
    ELSE IF InFlight(t) THEN "Processing"
    ELSE "Done"

TaskTransitions ==
    {<<"Pending", "Fetching">>, <<"Fetching", "Processing">>, <<"Fetching", "Done">>,
     <<"Processing", "Processing">>, <<"Processing", "Done">>}

C12_Step ==
    \A p \in (DOMAIN tasks) \cap (DOMAIN tasks') :
        LET a == tasks[p]
            b == tasks'[p]
        IN  /\ a # b => <<TaskState(a), TaskState(b)>> \in TaskTransitions
            /\ pageFetches'[a.page] > pageFetches[a.page] =>
                  (TaskState(a) = "Pending" /\ pageFetches[a.page] = 0)
            /\ a.fetch = "failed" => (b = a /\ TaskState(a) = "Done")
            /\ TaskState(a) = "Done" => b = a
            /\ Len(b.log) > Len(a.log) => TaskState(b) = "Processing"
            /\ b.requests > a.requests => TaskState(a) = "Processing"

\* C12: every page task moves Pending -> Fetching -> Processing -> Done or
\* Pending -> Fetching -> FetchFailed -> Done and never backwards; it fetches
\* its page at most once, also after a failed fetch; once Done it does not
\* change; and only a task in Processing issues DELETE calls.
C12_StateMachine == [][C12_Step]_vars

C12_Witness ==
    \E p, q \in DOMAIN tasks :
        /\ tasks[p].pc = "Done" /\ tasks[p].fetch = "failed"
        /\ tasks[q].pc = "Done" /\ tasks[q].fetch = "ok" /\ tasks[q].processed > 0

\* C13: while any page task has not finished the run is still in join_all:
\* the processed counter is untouched and no progress line is printed, so a
\* task whose request never returns keeps every result from being folded; the
\* counter changes only in the fold of the orchestrator.
C13_FoldAfterJoin ==
    /\ (\E p \in DOMAIN tasks : ~Finished(tasks[p])) => phase = "joining"
    /\ phase \in {"start", "discovering", "joining"} =>
          (processed_orders = 0 /\ progress = <<>>)

C13_Witness ==
    /\ phase = "joining"
    /\ \E p, q \in DOMAIN tasks :
          /\ tasks[p].pc = "Done" /\ tasks[p].result[1] > 0
          /\ tasks[q].pc = "Fetching"
    /\ processed_orders = 0

\* Requests of task t that were sent and not yet answered.
Outstanding(t) ==
    (pageFetches[t.page] - (IF t.fetch = "none" THEN 0 ELSE 1)) + (Len(t.log) - t.requests)

\* C14: a page task has at most one request outstanding, its fetch or one
\* DELETE; the DELETE calls of a page are issued in record order, each after
\* every earlier one has returned; so at most page_count requests are
\* outstanding at once after discovery.
C14_SequentialWithinPage ==
    /\ \A p \in DOMAIN tasks :
          LET t == tasks[p] IN
          /\ Outstanding(t) \in {0, 1}
          /\ Outstanding(t) = 1 <=> (t.pc = "Fetching" \/ InFlight(t))
          /\ \A n \in 1..(Len(t.log) - 1) :
                /\ t.log[n].rec <= t.log[n + 1].rec
                /\ n <= t.requests
    /\ SumOver([p \in DOMAIN tasks |-> Outstanding(tasks[p])], DOMAIN tasks) <= total_pages

C14_Witness ==
    /\ total_pages = 2
    /\ tasks[1].pc = "deleteSecondary" /\ tasks[1].i > 1
    /\ tasks[2].pc = "deletePrimary"

AllJoined == \A p \in DOMAIN tasks : Finished(tasks[p])

LastLineIsTotal == progress[Len(progress)].processed = processed_orders

\* C15 (as stated), for a run with every key set and well-formed: the terminal
\* state has every page task joined and the final processed count reported.
C15_FinalCountReported ==
    (phase = "done" /\ ConfigValid) =>
        (AllJoined /\ progress # <<>> /\ LastLineIsTotal)

Terminal ==
    /\ phase = "done"
    /\ AllJoined
    /\ next_result = Len(tasks) + 1
    /\ (\E p \in DOMAIN tasks : tasks[p].pc = "Done") => (progress # <<>> /\ LastLineIsTotal)

\* C15 (amended): when every request is answered and the tasks are scheduled
\* fairly, a run whose discovery fetch succeeded reaches the terminal state:
\* every page task finished and joined, every result folded, and the final
\* processed count in the last progress line whenever a task returned a result.
C15_ReachesTerminal == (phase = "joining") ~> Terminal

C15_Witness ==
    /\ Terminal
    /\ total_pages = 2
    /\ processed_orders > PageSize
    /\ faults > 0

\* C16: the progress lines come in ascending page order, one for each folded
\* task that returned a result, whatever order the tasks finished in; the
\* running total of each line is the sum of the results up to its page, so it
\* never decreases, and the last line carries the final processed count.
C16_FoldInPageOrder ==
    /\ \A n \in 1..(Len(progress) - 1) :
          /\ progress[n].page < progress[n + 1].page
          /\ progress[n].processed <= progress[n + 1].processed
    /\ \A n \in 1..Len(progress) :
          /\ progress[n].page \in DOMAIN tasks
          /\ progress[n].processed = SumOver(ResultCount, 1..progress[n].page)
    /\ phase \in {"folding", "done"} =>
          {progress[n].page : n \in 1..Len(progress)}
              = {p \in DOMAIN tasks : p < next_result /\ tasks[p].pc = "Done"}
    /\ (phase = "done" /\ progress # <<>>) => LastLineIsTotal

C16_Witness ==
    /\ phase = "done"
    /\ doneOrder = <<2, 1>>
    /\ Len(progress) = 2
    /\ progress[1].page = 1 /\ progress[2].page = 2
    /\ progress[1].processed < progress[2].processed

\* The deletePrimary calls the page tasks of this run have issued for `id`.
PrimaryCalls(id) ==
    SumOver([p \in DOMAIN tasks |->
                Len(SelectSeq(tasks[p].log,
                              LAMBDA e : e.call = "deletePrimary" /\ e.id = id))],
            DOMAIN tasks)

\* The ids in the page task p fetched.
FetchedIds(p) == {tasks[p].data[k].id : k \in 1..Len(tasks[p].data)}

\* C17 (as stated): in a first run in which every key is set and well-formed
\* and every fetch and DELETE succeeds, every order listed at discovery has had deletePrimary
\* invoked by the terminal state, and the processed count is the discovered
\* total.
C17_EveryOrderDeleted ==
    (run = 1 /\ phase = "done" /\ ConfigValid /\ faults = 0) =>
        /\ processed_orders = total_orders
        /\ \A id \in 1..total_orders : PrimaryCalls(id) >= 1

\* C18 (as stated): in one run no order id gets more than one deletePrimary
\* call, and no order is in the pages fetched by two page tasks.
C18_SingleAttemptPerOrder ==
    /\ \A id \in 1..ScenarioOrders : PrimaryCalls(id) <= 1
    /\ \A p, q \in DOMAIN tasks : p # q => FetchedIds(p) \cap FetchedIds(q) = {}

====
